---------------------------- MODULE Spec2Model ----------------------------
(***************************************************************************)
(* A model of the Zeppelin-to-Databricks notebook converter                *)
(* (src/zeppelin_converter.py) and of the directory-copy utility           *)
(* (src/copy_dir.py).                                                      *)
(*                                                                         *)
(* Python strings are sequences of characters.  A character is a TLA+      *)
(* string: printable ASCII characters stand for themselves, "\t" "\n"      *)
(* "\r" are the usual escapes, and the other non-printable characters the  *)
(* model uses carry their Unicode short names: "SOH" (U+0001), "US"        *)
(* (U+001F), "DEL" (U+007F), "NEL" (U+0085), "NBSP" (U+00A0), and "GRAVE"   *)
(* (U+0060, which a TLA+ string cannot hold).                              *)
(***************************************************************************)
EXTENDS Integers, Sequences, FiniteSets, TLC

VARIABLES
    \* sanitize_path_component applied to one string, then to its own result
    component, safe_component, resanitized, san_pc,
    \* generate_output_path applied to one input file
    gp_input, gp_fs, gp_safe_name, gp_final_filename, gp_output_path, gp_pc,
    \* resolve_filename_conflicts applied to one candidate path
    rs_fs, rs_output_path, rs_now, rs_result, rs_pc,
    \* convert_notebook applied to one paragraph list
    cv_notebook_json, cv_default_language, cv_result, cv_pc,
    \* main and process_files over one list of input files
    input_files, use_source_dir, language_arg, skip_old_days,
    disk, out_dir_exists, clock, idx,
    successful_files, failed_files, skipped_files, total_interpreter_stats,
    outcomes, exit_code, pc,
    \* copy_with_rename over one source tree
    cp_files, cp_skip_errors, cp_dest, cp_fresh, cp_todo, cp_root, cp_log, cp_pc

sanVars == <<component, safe_component, resanitized, san_pc>>
gpVars == <<gp_input, gp_fs, gp_safe_name, gp_final_filename, gp_output_path, gp_pc>>
rsVars == <<rs_fs, rs_output_path, rs_now, rs_result, rs_pc>>
cvVars == <<cv_notebook_json, cv_default_language, cv_result, cv_pc>>
argVars == <<input_files, use_source_dir, language_arg, skip_old_days>>
runVars == <<disk, out_dir_exists, idx, successful_files, failed_files, skipped_files,
             total_interpreter_stats, outcomes>>
btVars == <<argVars, runVars, clock, exit_code, pc>>
cpVars == <<cp_files, cp_skip_errors, cp_dest, cp_fresh, cp_todo, cp_root, cp_log, cp_pc>>
vars == <<sanVars, gpVars, rsVars, cvVars, btVars, cpVars>>

-----------------------------------------------------------------------------
(* Characters and the str methods the converter uses                       *)

AsciiPrintable ==
    << " ", "!", "\"", "#", "$", "%", "&", "'", "(", ")", "*", "+", ",", "-",
       ".", "/", "0", "1", "2", "3", "4", "5", "6", "7", "8", "9", ":", ";",
       "<", "=", ">", "?", "@", "A", "B", "C", "D", "E", "F", "G", "H", "I",
       "J", "K", "L", "M", "N", "O", "P", "Q", "R", "S", "T", "U", "V", "W",
       "X", "Y", "Z", "[", "\\", "]", "^", "_", "GRAVE", "a", "b", "c", "d", "e",
       "f", "g", "h", "i", "j", "k", "l", "m", "n", "o", "p", "q", "r", "s",
       "t", "u", "v", "w", "x", "y", "z", "{", "|", "}", "~" >>

\* ord(c): the code point of a character
Ord(c) ==
    CASE c = "SOH"  -> 1
      [] c = "\t"   -> 9
      [] c = "\n"   -> 10
      [] c = "\r"   -> 13
      [] c = "US"   -> 31
      [] c = "DEL"  -> 127
      [] c = "NEL"  -> 133
      [] c = "NBSP" -> 160
      [] OTHER      -> 31 + (CHOOSE i \in 1..Len(AsciiPrintable) : AsciiPrintable[i] = c)

\* str.isspace(): the characters str.split() and str.strip() treat as blank
Whitespace == {" ", "\t", "\n", "\r", "US", "NEL", "NBSP"}

\* Unicode category Cc: C0 controls, DEL and the C1 range
IsControl(c) == Ord(c) < 32 \/ (Ord(c) >= 127 /\ Ord(c) <= 159)

Min(S) == CHOOSE x \in S : \A y \in S : x <= y
Max(S) == CHOOSE x \in S : \A y \in S : x >= y

\* s.strip(chars)
StripChars(s, chars) ==
    LET keep == {i \in 1..Len(s) : s[i] \notin chars}
    IN  IF keep = {} THEN <<>> ELSE SubSeq(s, Min(keep), Max(keep))

\* s.strip()
Strip(s) == StripChars(s, Whitespace)

\* s[:n]
Take(s, n) == SubSeq(s, 1, IF n < Len(s) THEN n ELSE Len(s))

\* s.startswith(p), s.endswith(p)
StartsWith(s, p) == Len(p) <= Len(s) /\ SubSeq(s, 1, Len(p)) = p
EndsWith(s, p) == Len(p) <= Len(s) /\ SubSeq(s, Len(s) - Len(p) + 1, Len(s)) = p

\* p in s (substring test)
Contains(s, p) ==
    \E i \in 1..(Len(s) - Len(p) + 1) : SubSeq(s, i, i + Len(p) - 1) = p

\* s.split(): the maximal runs of non-blank characters
RECURSIVE SplitWhitespace(_)
SplitWhitespace(s) ==
    IF s = <<>> THEN <<>>
    ELSE IF Head(s) \in Whitespace THEN SplitWhitespace(Tail(s))
    ELSE LET blanks == {i \in 1..Len(s) : s[i] \in Whitespace}
             n == IF blanks = {} THEN Len(s) ELSE Min(blanks) - 1
         IN  <<SubSeq(s, 1, n)>> \o SplitWhitespace(SubSeq(s, n + 1, Len(s)))

\* s.split(sep) for a one-character separator: always at least one part
RECURSIVE SplitOn(_, _)
SplitOn(s, sep) ==
    LET at == {i \in 1..Len(s) : s[i] = sep}
    IN  IF at = {} THEN <<s>>
        ELSE <<SubSeq(s, 1, Min(at) - 1)>> \o SplitOn(SubSeq(s, Min(at) + 1, Len(s)), sep)

\* sep.join(parts)
RECURSIVE Join(_, _)
Join(sep, parts) ==
    IF parts = <<>> THEN <<>>
    ELSE IF Len(parts) = 1 THEN parts[1]
    ELSE parts[1] \o sep \o Join(sep, Tail(parts))

\* c * n
Repeat(c, n) == [i \in 1..n |-> c]

-----------------------------------------------------------------------------
(* sanitize_path_component                                                 *)

problematic_chars == {"/", "\\", ":", "*", "?", "\"", "<", ">", "|", "\t", "\n", "\r"}

\* for char in problematic_chars: safe_component.replace(char, '_')
ReplaceProblematic(s) ==
    [i \in 1..Len(s) |-> IF s[i] \in problematic_chars THEN "_" ELSE s[i]]

\* ''.join(c if ord(c) >= 32 and c not in problematic_chars else '_' ...)
ReplaceControl(s) ==
    [i \in 1..Len(s) |->
        IF Ord(s[i]) >= 32 /\ s[i] \notin problematic_chars THEN s[i] ELSE "_"]

\* ' '.join(safe_component.split())
NormalizeWhitespace(s) == Join(<<" ">>, SplitWhitespace(s))

\* A slip that trims the edges before the blanks are normalised
sanitize_trim_first(c) ==
    IF c = <<>> THEN <<>>
    ELSE NormalizeWhitespace(StripChars(ReplaceControl(ReplaceProblematic(c)), {".", " "}))

sanitize_path_component(c) ==
    IF c = <<>> THEN <<>>
    ELSE StripChars(NormalizeWhitespace(ReplaceControl(ReplaceProblematic(c))), {".", " "})

-----------------------------------------------------------------------------
(* String literals of the source, as character sequences                   *)

L_python ==
    <<"%", "p", "y", "t", "h", "o", "n">>
L_scala ==
    <<"%", "s", "c", "a", "l", "a">>
L_sql ==
    <<"%", "s", "q", "l">>
L_r ==
    <<"%", "r">>
L_md ==
    <<"%", "m", "d">>
L_sh ==
    <<"%", "s", "h">>
STR_source ==
    <<" ", "D", "a", "t", "a", "b", "r", "i", "c", "k", "s", " ", "n", "o",
      "t", "e", "b", "o", "o", "k", " ", "s", "o", "u", "r", "c", "e",
      "\n">>
STR_dbtitle ==
    <<" ", "D", "B", "T", "I", "T", "L", "E", " ", "1", ",", " ">>
STR_magic ==
    <<" ", "M", "A", "G", "I", "C">>
STR_command ==
    <<" ", "C", "O", "M", "M", "A", "N", "D", " ", "-", "-", "-", "-", "-",
      "-", "-", "-", "-", "-">>
STR_None ==
    <<"N", "o", "n", "e">>
STR_converted_from ==
    <<" ", "N", "O", "T", "E", ":", " ", "c", "o", "n", "v", "e", "r", "t",
      "e", "d", " ", "f", "r", "o", "m", " ">>
STR_to ==
    <<" ", "i", "n", "t", "e", "r", "p", "r", "e", "t", "e", "r", " ", "f",
      "r", "o", "m", " ", "Z", "e", "p", "p", "e", "l", "i", "n", " ", "t",
      "o", " ">>
STR_for_databricks ==
    <<" ", "f", "o", "r", " ", "D", "a", "t", "a", "b", "r", "i", "c", "k",
      "s", ".", " ", "A", "l", "s", "o", " ", "n", "o", "t", "e", " ", "t",
      "h", "a", "t", " ", "i", "n", "l", "i", "n", "e", " ", "i", "n", "t",
      "e", "r", "p", "r", "e", "t", "e", "r", "s", " ", "a", "r", "e", " ",
      "n", "o", "t", " ", "s", "u", "p", "p", "o", "r", "t", "e", "d", " ",
      "i", "n", " ", "D", "a", "t", "a", "b", "r", "i", "c", "k", "s", " ",
      "a", "n", "d", " ", "w", "i", "l", "l", " ", "n", "e", "e", "d", " ",
      "t", "o", " ", "b", "e", " ", "c", "o", "n", "v", "e", "r", "t", "e",
      "d", " ", "m", "a", "n", "u", "a", "l", "l", "y", ".", "\n">>
STR_unrecognized ==
    <<" ", "N", "O", "T", "E", ":", " ", "u", "n", "r", "e", "c", "o", "g",
      "n", "i", "z", "e", "d", " ">>
STR_from_zeppelin ==
    <<" ", "i", "n", "t", "e", "r", "p", "r", "e", "t", "e", "r", " ", "f",
      "r", "o", "m", " ", "Z", "e", "p", "p", "e", "l", "i", "n", ".", " ",
      "A", "l", "s", "o", " ", "n", "o", "t", "e", " ", "t", "h", "a", "t",
      " ", "i", "n", "l", "i", "n", "e", " ", "i", "n", "t", "e", "r", "p",
      "r", "e", "t", "e", "r", "s", " ", "a", "r", "e", " ", "n", "o", "t",
      " ", "s", "u", "p", "p", "o", "r", "t", "e", "d", " ", "i", "n", " ",
      "D", "a", "t", "a", "b", "r", "i", "c", "k", "s", " ", "a", "n", "d",
      " ", "w", "i", "l", "l", " ", "n", "e", "e", "d", " ", "t", "o", " ",
      "b", "e", " ", "c", "o", "n", "v", "e", "r", "t", "e", "d", " ", "m",
      "a", "n", "u", "a", "l", "l", "y", ".", "\n">>
MSG_skipped_empty ==
    <<"S", "k", "i", "p", "p", "e", "d", " ", "(", "a", "l", "l", " ", "p",
      "a", "r", "a", "g", "r", "a", "p", "h", "s", " ", "a", "r", "e", " ",
      "e", "m", "p", "t", "y", ")">>
MSG_skipped_older ==
    <<"S", "k", "i", "p", "p", "e", "d", " ", "(", "o", "l", "d", "e", "r",
      " ", "t", "h", "a", "n", " ">>
MSG_days ==
    <<" ", "d", "a", "y", "s", ")">>
MSG_converted ==
    <<"S", "u", "c", "c", "e", "s", "s", "f", "u", "l", "l", "y", " ", "c",
      "o", "n", "v", "e", "r", "t", "e", "d", " ", "t", "o", " ">>
MSG_conflict ==
    <<" ", "(", "f", "i", "l", "e", "n", "a", "m", "e", " ", "c", "o", "n",
      "f", "l", "i", "c", "t", " ", "r", "e", "s", "o", "l", "v", "e", "d",
      ")">>
MSG_missing ==
    <<"M", "i", "s", "s", "i", "n", "g", " ", "'", "p", "a", "r", "a", "g",
      "r", "a", "p", "h", "s", "'", " ", "f", "i", "e", "l", "d", " ", "i",
      "n", " ">>
MSG_nonetype ==
    <<"'", "N", "o", "n", "e", "T", "y", "p", "e", "'", " ", "o", "b", "j",
      "e", "c", "t", " ", "h", "a", "s", " ", "n", "o", " ", "a", "t", "t",
      "r", "i", "b", "u", "t", "e", " ", "'", "s", "t", "r", "i", "p", "'">>
MSG_json ==
    <<"E", "x", "p", "e", "c", "t", "i", "n", "g", " ", "v", "a", "l", "u",
      "e", ":", " ", "l", "i", "n", "e", " ", "1", " ", "c", "o", "l", "u",
      "m", "n", " ", "1", " ", "(", "c", "h", "a", "r", " ", "0", ")">>
MSG_isdir ==
    <<"[", "E", "r", "r", "n", "o", " ", "2", "1", "]", " ", "I", "s", " ",
      "a", " ", "d", "i", "r", "e", "c", "t", "o", "r", "y", ":", " ", "'">>
STR_Skipped ==
    <<"S", "k", "i", "p", "p", "e", "d">>
OUT_DIR ==
    <<"/", "o", "u", "t">>
STR_notebook ==
    <<"n", "o", "t", "e", "b", "o", "o", "k">>
STR_file ==
    <<"f", "i", "l", "e">>
STR_py ==
    <<".", "p", "y">>
STR_scala ==
    <<".", "s", "c", "a", "l", "a">>
STR_sql ==
    <<".", "s", "q", "l">>
STR_r ==
    <<".", "r">>
STR_md ==
    <<".", "m", "d">>
STR_sh ==
    <<".", "s", "h">>
STR_unnamed_notebook ==
    <<"u", "n", "n", "a", "m", "e", "d", "_", "n", "o", "t", "e", "b", "o", "o", "k">>
STRFTIME_PREFIX ==
    <<"2", "0", "2", "6", "0", "1", "0", "1", "_", "0", "0", "0", "0">>

-----------------------------------------------------------------------------
(* Output directory contents, clock, path helpers                          *)

\* The flat output directory: a function from the names present in it to
\* what each is.  "other" is an entry that is neither a directory nor a
\* regular file (a FIFO, a socket, a device node).
EntryKinds == {"dir", "file", "other"}

\* An entry that was in the directory before the run: no input owns it
Entry(kind) == [kind |-> kind, owner |-> <<>>, content |-> <<>>]

exists(fs, p) == p \in DOMAIN fs
isdir(fs, p) == p \in DOMAIN fs /\ fs[p].kind = "dir"
isfile(fs, p) == p \in DOMAIN fs /\ fs[p].kind = "file"

Digits == <<"0", "1", "2", "3", "4", "5", "6", "7", "8", "9">>
Digit(d) == Digits[d + 1]

\* f"{counter:03d}"
Format03d(k) ==
    IF k < 1000
    THEN <<Digit(k \div 100), Digit((k \div 10) % 10), Digit(k % 10)>>
    ELSE <<Digit(k \div 1000)>> \o <<Digit((k \div 100) % 10), Digit((k \div 10) % 10), Digit(k % 10)>>

\* datetime.now().strftime("%Y%m%d_%H%M%S"): the clock counts the seconds of
\* one minute, 2026-01-01 00:00
strftime(now) ==
    STRFTIME_PREFIX \o <<Digit((now \div 10) % 6), Digit(now % 10)>>

\* os.path.splitext of a file name: the extension starts at the last dot,
\* unless only dots precede it
splitext(filename) ==
    LET dots == {i \in 1..Len(filename) : filename[i] = "."}
        last == Max(dots)
    IN  IF dots = {} \/ (\A j \in 1..last : filename[j] = ".")
        THEN <<filename, <<>>>>
        ELSE <<SubSeq(filename, 1, last - 1), SubSeq(filename, last, Len(filename))>>

\* os.path.normpath of a path below the output directory: empty and "."
\* components go, ".." takes the component before it along
RECURSIVE NormParts(_, _)
NormParts(done, rest) ==
    IF rest = <<>> THEN done
    ELSE LET c == Head(rest)
         IN  IF c = <<>> \/ c = <<".">> THEN NormParts(done, Tail(rest))
             ELSE IF c = <<".", ".">> /\ done # <<>>
                  THEN NormParts(SubSeq(done, 1, Len(done) - 1), Tail(rest))
             ELSE NormParts(Append(done, c), Tail(rest))

normpath(p) == Join(<<"/">>, NormParts(<<>>, SplitOn(p, "/")))

-----------------------------------------------------------------------------
(* resolve_filename_conflicts                                              *)

MAX_COUNTER == 999

Suffixed(name, suffix, ext) == name \o <<"_">> \o suffix \o ext

\* The first free name among name_001 .. name_999, else the timestamped name
NumberedOrTimestamp(fs, name, ext, now) ==
    LET free == {k \in 1..MAX_COUNTER : ~exists(fs, Suffixed(name, Format03d(k), ext))}
    IN  IF free # {} THEN Suffixed(name, Format03d(Min(free)), ext)
        ELSE Suffixed(name, strftime(now), ext)

resolve_filename_conflicts(fs, output_path, now) ==
    LET name == splitext(output_path)[1]
        ext == splitext(output_path)[2]
    IN  IF ~exists(fs, output_path) THEN output_path
        ELSE IF isdir(fs, output_path)
        THEN IF ~exists(fs, Suffixed(name, STR_notebook, ext))
             THEN Suffixed(name, STR_notebook, ext)
             ELSE IF ~exists(fs, Suffixed(name, STR_file, ext))
             THEN Suffixed(name, STR_file, ext)
             ELSE NumberedOrTimestamp(fs, name, ext, now)
        ELSE IF isfile(fs, output_path)
        THEN NumberedOrTimestamp(fs, name, ext, now)
        ELSE output_path

-----------------------------------------------------------------------------
(* generate_output_path                                                    *)

Languages == {L_scala, L_python, L_sql, L_r}

\* FILE_EXTENSIONS.get(language, '.py')
FileExtension(language) ==
    CASE language = L_python -> STR_py
      [] language = L_scala  -> STR_scala
      [] language = L_sql    -> STR_sql
      [] language = L_r      -> STR_r
      [] language = L_md     -> STR_md
      [] language = L_sh     -> STR_sh
      [] OTHER                -> STR_py

MAX_FILENAME == 200
MAX_FOLDER == 100
MIN_NAME == 10

\* rel_dir.replace(os.sep, '_').replace('/', '_').replace('\\', '_')
ReplaceSeparators(s) ==
    [i \in 1..Len(s) |-> IF s[i] \in {"/", "\\"} THEN "_" ELSE s[i]]

\* The folder prefix: the relative directory below source_dir, or for a
\* single file the name of its parent directory
FolderPath(file) ==
    IF file.source_dir
    THEN IF file.rel_dir # <<>> /\ file.rel_dir # <<".">>
         THEN sanitize_path_component(ReplaceSeparators(file.rel_dir)) \o <<"_">>
         ELSE <<>>
    ELSE IF file.parent_dir # <<>> /\ file.parent_dir \notin {<<".">>, <<".", ".">>, file.cwd}
         THEN sanitize_path_component(file.parent_dir) \o <<"_">>
         ELSE <<>>

SafeName(name) ==
    IF name # <<>>
    THEN LET safe == sanitize_path_component(name)
         IN  IF safe = <<>> \/ safe \in {<<".">>, <<".", ".">>} THEN STR_unnamed_notebook ELSE safe
    ELSE STR_unnamed_notebook

FinalFilename(folder_path, safe_name, extension) ==
    LET truncated_folder ==
            IF Len(folder_path) > MAX_FOLDER THEN Take(folder_path, MAX_FOLDER) ELSE folder_path
        remaining_length == MAX_FILENAME - Len(truncated_folder) - Len(extension)
        final_filename ==
            IF Len(folder_path \o safe_name) > MAX_FILENAME
            THEN truncated_folder \o
                 (IF remaining_length > MIN_NAME THEN Take(safe_name, remaining_length) ELSE safe_name)
            ELSE folder_path \o safe_name
    IN  IF EndsWith(final_filename, extension) THEN final_filename
        ELSE final_filename \o extension

\* The output path, as a name inside the flat output directory
generate_output_path(file, language, name, fs, now) ==
    normpath(resolve_filename_conflicts(
        fs, FinalFilename(FolderPath(file), SafeName(name), FileExtension(language)), now))

-----------------------------------------------------------------------------
(* convert_notebook                                                        *)

INTERPRETER_MAPPINGS ==
    (<<"%", "p", "y", "s", "p", "a", "r", "k">> :> L_python) @@
    (<<"%", "s", "h">> :> L_sh) @@
    (<<"%", "s", "p", "a", "r", "k">> :> L_scala) @@
    (<<"%", "s", "q", "l">> :> L_sql) @@
    (<<"%", "m", "d">> :> L_md) @@
    (<<"%", "r">> :> L_r) @@
    (<<"%", "s", "p", "a", "r", "k", ".", "s", "q", "l">> :> L_sql) @@
    (<<"%", "s", "p", "a", "r", "k", ".", "p", "y", "s", "p", "a", "r", "k">> :> L_python) @@
    (<<"%", "s", "p", "a", "r", "k", ".", "i", "p", "y", "s", "p", "a", "r", "k">> :> L_python) @@
    (<<"%", "s", "p", "a", "r", "k", ".", "r">> :> L_r) @@
    (<<"%", "s", "p", "a", "r", "k", ".", "i", "r">> :> L_r) @@
    (<<"%", "s", "p", "a", "r", "k", ".", "c", "o", "n", "f">> :> L_scala) @@
    (<<"%", "p", "y", "t", "h", "o", "n", ".", "i", "p", "y", "t", "h", "o", "n">> :> L_python) @@
    (<<"%", "p", "y", "t", "h", "o", "n">> :> L_python) @@
    (<<"%", "r", ".", "i", "r">> :> L_r) @@
    (<<"%", "r", ".", "r">> :> L_r) @@
    (<<"%", "r", ".", "s", "h", "i", "n", "y">> :> L_r) @@
    (<<"%", "f", "i", "l", "e">> :> L_sh) @@
    (<<"s", "c", "a", "l", "a">> :> L_scala) @@
    (<<"p", "y", "t", "h", "o", "n">> :> L_python) @@
    (<<"s", "q", "l">> :> L_sql)

\* COMMENT_STYLES[language]
CommentStyle(language) ==
    CASE language \in {L_python, L_r, L_sh} -> <<"#">>
      [] language \in {L_scala, L_md}       -> <<"/", "/">>
      [] language = L_sql                   -> <<"-", "-">>

\* A JSON member that may be missing, null, or a string
Absent == [has |-> "absent", val |-> <<>>]
Null == [has |-> "null", val |-> <<>>]
Str(s) == [has |-> "str", val |-> s]

\* paragraph.get('text', '').strip() raises AttributeError on a null text
TextRaises(paragraph) == paragraph.text.has = "null"
CellText(paragraph) == Strip(paragraph.text.val)

\* f"{paragraph.get('title')}"
TitleText(paragraph) == IF paragraph.title.has = "str" THEN paragraph.title.val ELSE STR_None

\* A slip that looks the token up in the table whether or not it starts with '%'
IsDirectiveAnyToken(first_line) ==
    LET token == IF \E i \in 1..Len(first_line) : first_line[i] = " "
                 THEN SplitOn(first_line, " ")[1] ELSE first_line
    IN  StartsWith(first_line, <<"%">>) \/ token \in DOMAIN INTERPRETER_MAPPINGS

\* lines[0].strip().startswith('%')
IsDirective(first_line) == StartsWith(first_line, <<"%">>)

\* One pass of the loop body over a paragraph with non-empty trimmed text:
\* the tag, the note after the tag line, and the body lines
Cell(paragraph, default_language) ==
    LET prefix == CommentStyle(default_language) \o STR_magic
        lines == SplitOn(CellText(paragraph), "\n")
        first_line == Strip(lines[1])
        potential_interpreter ==
            IF \E i \in 1..Len(first_line) : first_line[i] = " "
            THEN SplitOn(first_line, " ")[1] ELSE first_line
        known == potential_interpreter \in DOMAIN INTERPRETER_MAPPINGS
        mapped == INTERPRETER_MAPPINGS[potential_interpreter]
    IN  IF IsDirective(first_line)
        THEN [interpreter_type |-> IF known THEN mapped ELSE potential_interpreter,
              interpreter_comment |->
                 IF known
                 THEN IF mapped # potential_interpreter
                      THEN prefix \o <<" ">> \o CommentStyle(mapped) \o STR_converted_from
                           \o potential_interpreter \o STR_to \o mapped \o STR_for_databricks
                      ELSE <<>>
                 ELSE prefix \o <<" ">> \o CommentStyle(default_language) \o STR_unrecognized
                      \o potential_interpreter \o STR_from_zeppelin,
              cell_lines |-> Tail(lines),
              text |-> CellText(paragraph)]
        ELSE [interpreter_type |-> default_language,
              interpreter_comment |-> <<>>,
              cell_lines |-> lines,
              text |-> CellText(paragraph)]

\* The content_lines one cell appends
CellLines(paragraph, default_language) ==
    LET comment == CommentStyle(default_language)
        prefix == comment \o STR_magic
        cell == Cell(paragraph, default_language)
    IN  <<comment \o STR_dbtitle \o TitleText(paragraph) \o <<"\n">>,
          prefix \o <<" ">> \o cell.interpreter_type \o <<"\n">> \o cell.interpreter_comment>>
        \o [i \in 1..Len(cell.cell_lines) |-> prefix \o <<" ">> \o cell.cell_lines[i] \o <<"\n">>]
        \o <<comment \o STR_command \o <<"\n", "\n">>>>

\* interpreter_usage[tag] += 1
Increment(usage, tag) ==
    IF tag \in DOMAIN usage THEN [usage EXCEPT ![tag] = @ + 1] ELSE usage @@ (tag :> 1)

NoResult == [raised |-> FALSE, content_lines |-> <<>>, interpreter_usage |-> <<>>, cells |-> <<>>]

\* The loop of convert_notebook from paragraph i on; cells keeps each pass's
\* locals.  A null text raises, and nothing is returned.
RECURSIVE ConvertFrom(_, _, _, _)
ConvertFrom(notebook_json, default_language, i, acc) ==
    IF i > Len(notebook_json) THEN acc
    ELSE LET paragraph == notebook_json[i]
         IN  IF TextRaises(paragraph)
             THEN [raised |-> TRUE, content_lines |-> <<>>, interpreter_usage |-> <<>>, cells |-> <<>>]
             ELSE IF CellText(paragraph) = <<>>
             THEN ConvertFrom(notebook_json, default_language, i + 1, acc)
             ELSE ConvertFrom(notebook_json, default_language, i + 1,
                    [raised |-> FALSE,
                     content_lines |-> acc.content_lines \o CellLines(paragraph, default_language),
                     interpreter_usage |->
                        Increment(acc.interpreter_usage,
                                  Cell(paragraph, default_language).interpreter_type),
                     cells |-> Append(acc.cells, Cell(paragraph, default_language))])

convert_notebook(notebook_json, default_language) ==
    ConvertFrom(notebook_json, default_language, 1,
        [raised |-> FALSE,
         content_lines |-> <<CommentStyle(default_language) \o STR_source>>,
         interpreter_usage |-> <<>>,
         cells |-> <<>>])

-----------------------------------------------------------------------------
(* load_notebook_json, process_single_file, process_files, main            *)

\* Seconds in timedelta(days=1)
DAY == 86400

\* --skip_old_days: not given, or an integer
NoDays == [given |-> FALSE, days |-> 0]
Days(n) == [given |-> TRUE, days |-> n]

\* str(n) for a small integer
IntToStr(n) ==
    IF n < 0 THEN <<"-", Digit(-n)>> ELSE <<Digit(n)>>

\* dateUpdated of a paragraph: missing, null or empty, a string strptime
\* rejects, or a time in seconds
NoDate == [has |-> "absent", t |-> 0]
NullDate == [has |-> "null", t |-> 0]
BadDate == [has |-> "bad", t |-> 0]
At(t) == [has |-> "time", t |-> t]

\* load_notebook_json: the latest parseable dateUpdated, if any
LatestDate(paragraphs) ==
    LET times == {paragraphs[i].dateUpdated.t :
                    i \in {j \in 1..Len(paragraphs) : paragraphs[j].dateUpdated.has = "time"}}
    IN  IF times = {} THEN NoDate ELSE At(Max(times))

\* The first loop of process_single_file: "content" at the first paragraph
\* with non-empty trimmed text, "raise" at a null text met before one,
\* "empty" otherwise
RECURSIVE HasContent(_, _)
HasContent(paragraphs, i) ==
    IF i > Len(paragraphs) THEN "empty"
    ELSE IF TextRaises(paragraphs[i]) THEN "raise"
    ELSE IF CellText(paragraphs[i]) # <<>> THEN "content"
    ELSE HasContent(paragraphs, i + 1)

\* if skip_old_days and notebook_data['last_updated']: a threshold of 0 is
\* falsy, like one that was not given
TooOld(days, last_updated, at) ==
    /\ days.given /\ days.days # 0
    /\ last_updated.has = "time"
    /\ last_updated.t < at - days.days * DAY

\* Counter.update
RECURSIVE UpdateCounter(_, _, _)
UpdateCounter(total, stats, keys) ==
    IF keys = {} THEN total
    ELSE LET k == CHOOSE x \in keys : TRUE
         IN  UpdateCounter(
                IF k \in DOMAIN total THEN [total EXCEPT ![k] = @ + stats[k]]
                ELSE total @@ (k :> stats[k]),
                stats, keys \ {k})

\* Lines 289-298: the name as process_single_file sanitizes it again
SafeOriginal(original_name) ==
    IF sanitize_path_component(original_name) = <<>> THEN STR_unnamed_notebook
    ELSE sanitize_path_component(original_name)

Returned(outcome, success, message, stats, path, dir, made) ==
    [outcome |-> outcome, success |-> success, message |-> message, stats |-> stats,
     output_path |-> path, fs |-> dir, out_dir_exists |-> made]

\* Lines 305-327: the output directory is made, what sits at the resolved
\* path is removed (a directory cannot be, and the write then fails), and the
\* content is written
WriteOutput(file, language, dir, converted, output_path) ==
    IF isdir(dir, output_path)
    THEN Returned("Failed", FALSE,
                  MSG_isdir \o OUT_DIR \o <<"/">> \o output_path \o <<"'">>, <<>>,
                  output_path, dir, TRUE)
    ELSE Returned("Converted", TRUE,
                  MSG_converted \o OUT_DIR \o <<"/">> \o output_path
                     \o (IF file.name # <<>>
                            /\ output_path # SafeOriginal(file.name) \o FileExtension(language)
                         THEN MSG_conflict ELSE <<>>),
                  converted.interpreter_usage, output_path,
                  [q \in DOMAIN dir \cup {output_path} |->
                     IF q = output_path
                     THEN [kind |-> "file", owner |-> file.path,
                           content |-> converted.content_lines]
                     ELSE dir[q]],
                  TRUE)

\* Lines 279-284: convert, then generate the output path
ConvertAndWrite(file, language, dir, made, at, converted) ==
    IF converted.raised
    THEN Returned("Failed", FALSE, MSG_nonetype, <<>>, <<>>, dir, made)
    ELSE WriteOutput(file, language, dir, converted,
                     generate_output_path(file, language, file.name, dir, at))

\* Lines 261-277: the empty check and the age check
FilterLoaded(file, language, dir, made, days, at, has_content) ==
    IF has_content = "raise"
    THEN Returned("Failed", FALSE, MSG_nonetype, <<>>, <<>>, dir, made)
    ELSE IF has_content = "empty"
    THEN Returned("SkippedEmpty", FALSE, MSG_skipped_empty, <<>>, <<>>, dir, made)
    ELSE IF TooOld(days, LatestDate(file.paragraphs), at)
    THEN Returned("SkippedTooOld", FALSE,
                  MSG_skipped_older \o IntToStr(days.days) \o MSG_days, <<>>, <<>>, dir, made)
    ELSE ConvertAndWrite(file, language, dir, made, at,
                         convert_notebook(file.paragraphs, language))

\* process_single_file with --out_dir given: what it returns, and the output
\* directory it leaves
process_single_file(file, language, dir, made, days, at) ==
    IF file.load = "missing"
    THEN Returned("Failed", FALSE, MSG_missing \o file.path, <<>>, <<>>, dir, made)
    ELSE IF file.load = "invalid"
    THEN Returned("Failed", FALSE, MSG_json, <<>>, <<>>, dir, made)
    ELSE FilterLoaded(file, language, dir, made, days, at, HasContent(file.paragraphs, 1))

-----------------------------------------------------------------------------
(* Bounded inputs                                                          *)

MaxLen == 4

\* One character of each class the sanitizer distinguishes
SanChars == {"a", " ", ".", "/", "\t", "SOH", "DEL", "NBSP"}

RECURSIVE StringsUpTo(_, _)
StringsUpTo(chars, n) ==
    IF n = 0 THEN {<<>>}
    ELSE LET shorter == StringsUpTo(chars, n - 1)
         IN  shorter \cup {Append(s, c) : s \in {t \in shorter : Len(t) = n - 1}, c \in chars}

Components == StringsUpTo(SanChars, MaxLen)

\* Notebook names around the length budget: a run of "a" and a short tail
MaxTail == 2
PadLens == {0, 1} \cup ((MAX_FILENAME - 6)..(MAX_FILENAME + 1))
PathNames ==
    {Repeat("a", n) \o t : n \in PadLens, t \in StringsUpTo({"b", " ", "."}, MaxTail)}

\* Seconds the clock may show
MaxClock == 1

\* Relative directories of an input below the source directory
RelDirs == {<<>>, <<"d">>, <<"d", "/", "e">>, Repeat("d", MAX_FOLDER + 20)}

NoFile ==
    [source_dir |-> TRUE, rel_dir |-> <<>>, parent_dir |-> <<>>, cwd |-> <<>>,
     name |-> <<>>, language |-> L_scala]

GpInputs ==
    {[source_dir |-> TRUE, rel_dir |-> d, parent_dir |-> <<>>, cwd |-> <<>>,
      name |-> n, language |-> l] : d \in RelDirs, n \in PathNames, l \in Languages}
    \cup
    {[source_dir |-> FALSE, rel_dir |-> <<>>, parent_dir |-> d, cwd |-> <<"w">>,
      name |-> n, language |-> l] : d \in {<<>>, <<"w">>, <<"p">>}, n \in PathNames, l \in Languages}

EmptyFs == [p \in {} |-> Entry("file")]

CpIdle ==
    /\ cp_files = {}
    /\ cp_skip_errors = TRUE
    /\ cp_dest = EmptyFs
    /\ cp_fresh = TRUE
    /\ cp_todo = {}
    /\ cp_root = <<>>
    /\ cp_log = <<>>
    /\ cp_pc = "idle"

-----------------------------------------------------------------------------
(* The sanitizer applied to a string, and again to its own result          *)

SanIdle ==
    /\ component = <<>>
    /\ safe_component = <<>>
    /\ resanitized = <<>>
    /\ san_pc = "idle"

GpIdle ==
    /\ gp_input = NoFile
    /\ gp_fs = EmptyFs
    /\ gp_safe_name = <<>>
    /\ gp_final_filename = <<>>
    /\ gp_output_path = <<>>
    /\ gp_pc = "idle"

RsIdle ==
    /\ rs_fs = EmptyFs
    /\ rs_output_path = <<>>
    /\ rs_now = 0
    /\ rs_result = <<>>
    /\ rs_pc = "idle"

CvIdle ==
    /\ cv_notebook_json = <<>>
    /\ cv_default_language = L_scala
    /\ cv_result = NoResult
    /\ cv_pc = "idle"

BtIdle ==
    /\ input_files = <<>>
    /\ use_source_dir = TRUE
    /\ language_arg = L_scala
    /\ skip_old_days = NoDays
    /\ disk = EmptyFs
    /\ out_dir_exists = TRUE
    /\ clock = 0
    /\ idx = 1
    /\ successful_files = <<>>
    /\ failed_files = <<>>
    /\ skipped_files = <<>>
    /\ total_interpreter_stats = <<>>
    /\ outcomes = <<>>
    /\ exit_code = 0
    /\ pc = "idle"

SanInit ==
    /\ component \in Components
    /\ safe_component = <<>>
    /\ resanitized = <<>>
    /\ san_pc = "start"
    /\ GpIdle
    /\ RsIdle
    /\ CvIdle
    /\ BtIdle
    /\ CpIdle

Sanitize ==
    /\ san_pc = "start"
    /\ safe_component' = sanitize_path_component(component)
    /\ san_pc' = "once"
    /\ UNCHANGED <<component, resanitized, gpVars, rsVars, cvVars, btVars, cpVars>>

SanitizeAgain ==
    /\ san_pc = "once"
    /\ resanitized' = sanitize_path_component(safe_component)
    /\ san_pc' = "twice"
    /\ UNCHANGED <<component, safe_component, gpVars, rsVars, cvVars, btVars, cpVars>>

SanNext == Sanitize \/ SanitizeAgain

SpecSanitize == SanInit /\ [][SanNext]_vars

\* C8: sanitizing an already sanitized string returns it unchanged
C8_Idempotent == san_pc = "twice" => resanitized = safe_component

\* C8 witness: a string the sanitizer changed has been sanitized twice
C8_Witness ==
    /\ san_pc = "twice"
    /\ safe_component # component
    /\ safe_component # <<>>

NoEdgeDotOrSpace(s) == s = <<>> \/ (s[1] \notin {".", " "} /\ s[Len(s)] \notin {".", " "})

\* C9 as claimed: the result holds no problematic character and no control
\* character of any kind (DEL and the C1 range included), has no leading or
\* trailing dot or space, and no run of two or more blanks
C9_AsClaimed ==
    san_pc # "start" =>
        /\ \A i \in 1..Len(safe_component) :
              /\ safe_component[i] \notin problematic_chars
              /\ ~IsControl(safe_component[i])
        /\ NoEdgeDotOrSpace(safe_component)
        /\ \A i \in 1..(Len(safe_component) - 1) :
              ~(safe_component[i] \in Whitespace /\ safe_component[i + 1] \in Whitespace)

-----------------------------------------------------------------------------
(* generate_output_path applied to one input                               *)

GpInit ==
    /\ gp_input \in GpInputs
    /\ gp_fs = EmptyFs
    /\ gp_safe_name = <<>>
    /\ gp_final_filename = <<>>
    /\ gp_output_path = <<>>
    /\ gp_pc = "start"
    /\ SanIdle
    /\ RsIdle
    /\ CvIdle
    /\ BtIdle
    /\ CpIdle

\* What may already sit at the candidate name in the output directory
FsWith(candidate, kind) ==
    IF kind = "none" THEN EmptyFs ELSE [p \in {candidate} |-> Entry(kind)]

GenerateOutputPath ==
    /\ gp_pc = "start"
    /\ \E kind \in {"none"} \cup EntryKinds :
          LET safe == SafeName(gp_input.name)
              final == FinalFilename(FolderPath(gp_input), safe, FileExtension(gp_input.language))
              fs == FsWith(final, kind)
          IN  /\ gp_fs' = fs
              /\ gp_safe_name' = safe
              /\ gp_final_filename' = final
              /\ gp_output_path' =
                    generate_output_path(gp_input, gp_input.language, gp_input.name, fs, 0)
    /\ gp_pc' = "done"
    /\ UNCHANGED <<gp_input, sanVars, rsVars, cvVars, btVars, cpVars>>

GpNext == GenerateOutputPath

SpecPath == GpInit /\ [][GpNext]_vars

\* C10 as claimed: the sanitized name has at most 200 characters and no
\* trailing dot or space, the file name built from it has at most 200
\* characters, and its name part does not end in a dot or a space
C10_AsClaimed ==
    gp_pc = "done" =>
        /\ Len(sanitize_path_component(gp_input.name)) <= MAX_FILENAME
        /\ NoEdgeDotOrSpace(sanitize_path_component(gp_input.name))
        /\ Len(gp_final_filename) <= MAX_FILENAME
        /\ splitext(gp_final_filename)[1] # <<>>
        /\ splitext(gp_final_filename)[1][Len(splitext(gp_final_filename)[1])] \notin {".", " "}

-----------------------------------------------------------------------------
(* resolve_filename_conflicts applied to one candidate and one directory   *)

\* Candidate names: with an extension, with two dots, without an extension
Candidates == {<<"r", ".", "p", "y">>, <<"r", ".", "x", ".", "r">>, <<"r">>}

\* Which of the numbered names _001 .. _999 are taken
NumberedTaken ==
    {{}, {1}, {2}, 1..(MAX_COUNTER - 1), 2..MAX_COUNTER, 1..MAX_COUNTER}

\* The directory: what sits at the candidate, and which suffixed names are taken
DirectoryWith(cand, kind, notebook, file, numbered, stamped, now) ==
    LET name == splitext(cand)[1]
        ext == splitext(cand)[2]
        taken == (IF kind = "none" THEN {} ELSE {cand})
                 \cup (IF notebook THEN {Suffixed(name, STR_notebook, ext)} ELSE {})
                 \cup (IF file THEN {Suffixed(name, STR_file, ext)} ELSE {})
                 \cup {Suffixed(name, Format03d(k), ext) : k \in numbered}
                 \cup (IF stamped THEN {Suffixed(name, strftime(now), ext)} ELSE {})
    IN  [p \in taken |-> Entry(IF p = cand THEN kind ELSE "file")]

RsInit ==
    /\ rs_output_path \in Candidates
    /\ rs_now \in 0..MaxClock
    /\ \E kind \in {"none"} \cup EntryKinds, notebook \in BOOLEAN, file \in BOOLEAN,
          numbered \in NumberedTaken, stamped \in BOOLEAN :
          rs_fs = DirectoryWith(rs_output_path, kind, notebook, file, numbered, stamped, rs_now)
    /\ rs_result = <<>>
    /\ rs_pc = "start"
    /\ SanIdle
    /\ GpIdle
    /\ CvIdle
    /\ BtIdle
    /\ CpIdle

ResolveFilenameConflicts ==
    /\ rs_pc = "start"
    /\ rs_result' = resolve_filename_conflicts(rs_fs, rs_output_path, rs_now)
    /\ rs_pc' = "done"
    /\ UNCHANGED <<rs_fs, rs_output_path, rs_now, sanVars, gpVars, cvVars, btVars, cpVars>>

RsNext == ResolveFilenameConflicts

SpecResolve == RsInit /\ [][RsNext]_vars

\* C1 as claimed: the returned path never exists at call time, and a free
\* candidate is returned unchanged
C1_AsClaimed ==
    rs_pc = "done" =>
        /\ ~exists(rs_fs, rs_result)
        /\ ~exists(rs_fs, rs_output_path) => rs_result = rs_output_path

-----------------------------------------------------------------------------
(* convert_notebook applied to one paragraph list                          *)

MaxParagraphs == 2

\* Paragraphs: text missing, null, blank, empty; a directive the table maps
\* to another tag; a directive followed by code on the same line; a
\* directive the table does not hold; no directive; a table key without
\* '%'; blanks around the text; a body line and a title that hold the
\* separator text; a directive followed by a tab
ConvParagraphs ==
    {[text |-> Absent,
      title |-> Str(<<"t">>)],
     [text |-> Null,
      title |-> Str(<<"t">>)],
     [text |-> Str(<<" ", "\n", "\t">>),
      title |-> Str(<<"t">>)],
     [text |-> Str(<<>>),
      title |-> Str(<<"t">>)],
     [text |-> Str(<<"%", "p", "y", "s", "p", "a", "r", "k", "\n", "p", "r", "i", "n", "t", "(", "1", ")">>),
      title |-> Str(<<"t">>)],
     [text |-> Str(<<"%", "s", "q", "l", " ", "s", "e", "l", "e", "c", "t", " ", "1">>),
      title |-> Str(<<"t">>)],
     [text |-> Str(<<"%", "f", "o", "o", "\n", "x">>),
      title |-> Str(<<"t">>)],
     [text |-> Str(<<"x", "\n", "y">>),
      title |-> Absent],
     [text |-> Str(<<"s", "q", "l", "\n", "x">>),
      title |-> Str(<<"t">>)],
     [text |-> Str(<<" ", "\n", "%", "m", "d", " ", "\n", "#", " ", "h", " ", "\n">>),
      title |-> Str(<<"t">>)],
     [text |-> Str(<<"/", "/", " ", "C", "O", "M", "M", "A", "N", "D", " ", "-", "-", "-", "-", "-", "-", "-", "-", "-", "-">>),
      title |-> Str(<<"t">>)],
     [text |-> Str(<<"x">>),
      title |-> Str(<<"t", "\n", "/", "/", " ", "C", "O", "M", "M", "A", "N", "D", " ", "-", "-", "-", "-", "-", "-", "-", "-", "-", "-">>)],
     [text |-> Str(<<"%", "s", "q", "l", "\t", "x">>),
      title |-> Null]}

RECURSIVE ListsUpTo(_, _)
ListsUpTo(S, n) ==
    IF n = 0 THEN {<<>>}
    ELSE LET shorter == ListsUpTo(S, n - 1)
         IN  shorter \cup {Append(l, x) : l \in {t \in shorter : Len(t) = n - 1}, x \in S}

CvInit ==
    /\ cv_notebook_json \in ListsUpTo(ConvParagraphs, MaxParagraphs)
    /\ cv_default_language \in Languages
    /\ cv_result = NoResult
    /\ cv_pc = "start"
    /\ SanIdle
    /\ GpIdle
    /\ RsIdle
    /\ BtIdle
    /\ CpIdle

ConvertNotebook ==
    /\ cv_pc = "start"
    /\ cv_result' = convert_notebook(cv_notebook_json, cv_default_language)
    /\ cv_pc' = "done"
    /\ UNCHANGED <<cv_notebook_json, cv_default_language, sanVars, gpVars, rsVars, btVars, cpVars>>

CvNext == ConvertNotebook

SpecConvert == CvInit /\ [][CvNext]_vars

\* The paragraphs with non-empty trimmed text, in order
NonEmptyParagraphs(notebook_json) ==
    SelectSeq(notebook_json, LAMBDA q : ~TextRaises(q) /\ CellText(q) # <<>>)

\* The written file, line by line: the content lines joined and split at "\n"
FileLines(content_lines) == SplitOn(Join(<<>>, content_lines), "\n")

SeparatorLine(default_language) == CommentStyle(default_language) \o STR_command

RECURSIVE SumLens(_, _)
SumLens(cells, k) == IF k = 0 THEN 0 ELSE SumLens(cells, k - 1) + 3 + Len(cells[k].cell_lines)

\* C6 as claimed: the output holds exactly one separator line per paragraph
\* with non-empty trimmed text, each cell's separator comes after all lines
\* of that cell, empty paragraphs contribute nothing, and no body line reads
\* as a separator line
C6_AsClaimed ==
    (cv_pc = "done" /\ ~cv_result.raised) =>
        LET out == cv_result.content_lines
            cells == cv_result.cells
            n == Len(NonEmptyParagraphs(cv_notebook_json))
            sep == SeparatorLine(cv_default_language)
            prefix == CommentStyle(cv_default_language) \o STR_magic
        IN  /\ Len(cells) = n
            /\ Len(out) = 1 + SumLens(cells, n)
            /\ \A k \in 1..n : out[1 + SumLens(cells, k)] = sep \o <<"\n", "\n">>
            /\ \A k \in 1..n : \A j \in 1..Len(cells[k].cell_lines) :
                  \A l \in 1..Len(FileLines(<<prefix \o <<" ">> \o cells[k].cell_lines[j] \o <<"\n">>>>)) :
                     FileLines(<<prefix \o <<" ">> \o cells[k].cell_lines[j] \o <<"\n">>>>)[l] # sep
            /\ Cardinality({i \in 1..Len(FileLines(out)) : FileLines(out)[i] = sep}) = n

\* The tag rule of the claim.  With anyKey, a first token that is a key of the
\* table counts as a directive whether or not it starts with '%'.
ClaimedCell(paragraph, default_language, anyKey) ==
    LET lines == SplitOn(CellText(paragraph), "\n")
        first_line == Strip(lines[1])
        token == SplitOn(first_line, " ")[1]
    IN  IF token \in DOMAIN INTERPRETER_MAPPINGS /\ (anyKey \/ StartsWith(first_line, <<"%">>))
        THEN [tag |-> INTERPRETER_MAPPINGS[token], warned |-> FALSE, body |-> Tail(lines)]
        ELSE IF StartsWith(first_line, <<"%">>)
        THEN [tag |-> token, warned |-> TRUE, body |-> Tail(lines)]
        ELSE [tag |-> default_language, warned |-> FALSE, body |-> lines]

RECURSIVE SumOver(_, _)
SumOver(f, keys) ==
    IF keys = {} THEN 0
    ELSE LET k == CHOOSE x \in keys : TRUE IN f[k] + SumOver(f, keys \ {k})

TagsAsClaimed(anyKey) ==
    (cv_pc = "done" /\ ~cv_result.raised) =>
        LET ps == NonEmptyParagraphs(cv_notebook_json)
            cells == cv_result.cells
            usage == cv_result.interpreter_usage
            claimed(k) == ClaimedCell(ps[k], cv_default_language, anyKey)
        IN  /\ Len(cells) = Len(ps)
            /\ \A k \in 1..Len(ps) :
                  /\ cells[k].interpreter_type = claimed(k).tag
                  /\ cells[k].cell_lines = claimed(k).body
                  /\ claimed(k).warned <=> Contains(cells[k].interpreter_comment, STR_unrecognized)
            /\ DOMAIN usage = {claimed(k).tag : k \in 1..Len(ps)}
            /\ \A t \in DOMAIN usage :
                  usage[t] = Cardinality({k \in 1..Len(ps) : claimed(k).tag = t})
            /\ SumOver(usage, DOMAIN usage) = Len(ps)

\* C7 as claimed: a first line that starts with a key of INTERPRETER_MAPPINGS
\* gets the mapped tag and loses its first line; a first line that starts
\* with '%' and a token outside the table keeps the token as tag, with a
\* warning, and loses its first line; any other cell gets the default
\* language and keeps its lines; the counter counts each cell once under
\* its tag
C7_AsClaimed == TagsAsClaimed(TRUE)

\* C7 amended: as claimed, but the table is consulted only for a first line
\* that starts with '%'; a first line that starts with a key without '%'
\* (scala, python, sql) gets the default language and keeps all its lines
C7_Amended == TagsAsClaimed(FALSE)

\* C7 witness: a converted list holds a cell with a recognised directive, a
\* cell with an unrecognised one, or two cells counted under different tags
C7_Witness ==
    /\ cv_pc = "done"
    /\ ~cv_result.raised
    /\ Len(cv_result.cells) = 2
    /\ cv_result.cells[1].interpreter_type # cv_result.cells[2].interpreter_type
    /\ cv_result.cells[1].interpreter_type # cv_default_language
    /\ Contains(cv_result.cells[2].interpreter_comment, STR_unrecognized)

-----------------------------------------------------------------------------
(* A batch run: main with --out_dir, over the files found below src        *)

MaxFiles == 2

\* The notebook files of the source tree, in the sorted order
\* find_notebook_files returns them in: a load error whose message holds the
\* word Skipped; three notebooks whose flattened names coincide; unreadable
\* and empty ones; null texts; notebooks around the age threshold of one day
NotebookFiles ==
    <<[path |-> <<"s", "r", "c", "/", "S", "k", "i", "p", "p", "e", "d", "/", "n", ".", "j", "s", "o", "n">>,
      rel_dir |-> <<"S", "k", "i", "p", "p", "e", "d">>, parent_dir |-> <<"S", "k", "i", "p", "p", "e", "d">>, cwd |-> <<"s", "r", "c">>,
      load |-> "missing", name |-> <<"n">>,
      paragraphs |-> <<>>],
      [path |-> <<"s", "r", "c", "/", "a", "/", "b", "/", "n", ".", "j", "s", "o", "n">>,
      rel_dir |-> <<"a", "/", "b">>, parent_dir |-> <<"b">>, cwd |-> <<"s", "r", "c">>,
      load |-> "ok", name |-> <<"r">>,
      paragraphs |-> <<[text |-> Str(<<"x">>), title |-> Str(<<"t">>), dateUpdated |-> At(-1)]>>],
      [path |-> <<"s", "r", "c", "/", "a", "_", "b", "/", "n", ".", "j", "s", "o", "n">>,
      rel_dir |-> <<"a", "_", "b">>, parent_dir |-> <<"a", "_", "b">>, cwd |-> <<"s", "r", "c">>,
      load |-> "ok", name |-> <<"r">>,
      paragraphs |-> <<[text |-> Str(<<"%", "s", "q", "l", "\n", "s", "e", "l", "e", "c", "t", " ", "1">>), title |-> Str(<<"t">>), dateUpdated |-> At(1)]>>],
      [path |-> <<"s", "r", "c", "/", "a", "_", "b", "_", "r", ".", "j", "s", "o", "n">>,
      rel_dir |-> <<>>, parent_dir |-> <<"s", "r", "c">>, cwd |-> <<"s", "r", "c">>,
      load |-> "ok", name |-> <<"a", "_", "b", "_", "r">>,
      paragraphs |-> <<[text |-> Str(<<"x">>), title |-> Str(<<"t">>), dateUpdated |-> At(-DAY)]>>],
      [path |-> <<"s", "r", "c", "/", "e", "/", "b", "a", "d", ".", "j", "s", "o", "n">>,
      rel_dir |-> <<"e">>, parent_dir |-> <<"e">>, cwd |-> <<"s", "r", "c">>,
      load |-> "invalid", name |-> <<>>,
      paragraphs |-> <<>>],
      [path |-> <<"s", "r", "c", "/", "e", "/", "b", "l", "a", "n", "k", ".", "j", "s", "o", "n">>,
      rel_dir |-> <<"e">>, parent_dir |-> <<"e">>, cwd |-> <<"s", "r", "c">>,
      load |-> "ok", name |-> <<"e">>,
      paragraphs |-> <<[text |-> Str(<<" ", "\n">>), title |-> Str(<<"t">>), dateUpdated |-> At(-DAY - 1)],
                      [text |-> Absent, title |-> Str(<<"t">>), dateUpdated |-> NoDate],
                      [text |-> Str(<<>>), title |-> Str(<<"t">>), dateUpdated |-> NoDate]>>],
      [path |-> <<"s", "r", "c", "/", "e", "/", "e", "m", "p", "t", "y", ".", "j", "s", "o", "n">>,
      rel_dir |-> <<"e">>, parent_dir |-> <<"e">>, cwd |-> <<"s", "r", "c">>,
      load |-> "ok", name |-> <<"e">>,
      paragraphs |-> <<>>],
      [path |-> <<"s", "r", "c", "/", "e", "/", "m", "i", "s", "s", "i", "n", "g", ".", "j", "s", "o", "n">>,
      rel_dir |-> <<"e">>, parent_dir |-> <<"e">>, cwd |-> <<"s", "r", "c">>,
      load |-> "missing", name |-> <<>>,
      paragraphs |-> <<>>],
      [path |-> <<"s", "r", "c", "/", "e", "/", "n", "u", "l", "l", ".", "j", "s", "o", "n">>,
      rel_dir |-> <<"e">>, parent_dir |-> <<"e">>, cwd |-> <<"s", "r", "c">>,
      load |-> "ok", name |-> <<"e">>,
      paragraphs |-> <<[text |-> Null, title |-> Str(<<"t">>), dateUpdated |-> NoDate]>>],
      [path |-> <<"s", "r", "c", "/", "e", "/", "t", "a", "i", "l", "_", "n", "u", "l", "l", ".", "j", "s", "o", "n">>,
      rel_dir |-> <<"e">>, parent_dir |-> <<"e">>, cwd |-> <<"s", "r", "c">>,
      load |-> "ok", name |-> <<"e">>,
      paragraphs |-> <<[text |-> Str(<<"x">>), title |-> Str(<<"t">>), dateUpdated |-> NoDate],
                      [text |-> Null, title |-> Str(<<"t">>), dateUpdated |-> NoDate]>>],
      [path |-> <<"s", "r", "c", "/", "n", "e", "w", ".", "j", "s", "o", "n">>,
      rel_dir |-> <<>>, parent_dir |-> <<"s", "r", "c">>, cwd |-> <<"s", "r", "c">>,
      load |-> "ok", name |-> <<"w">>,
      paragraphs |-> <<[text |-> Str(<<"x">>), title |-> Str(<<"t">>), dateUpdated |-> At(-DAY + 1)],
                      [text |-> Str(<<"y">>), title |-> Str(<<"t">>), dateUpdated |-> BadDate]>>],
      [path |-> <<"s", "r", "c", "/", "o", "l", "d", ".", "j", "s", "o", "n">>,
      rel_dir |-> <<>>, parent_dir |-> <<"s", "r", "c">>, cwd |-> <<"s", "r", "c">>,
      load |-> "ok", name |-> <<>>,
      paragraphs |-> <<[text |-> Str(<<"x">>), title |-> Absent, dateUpdated |-> At(-DAY - 1)],
                      [text |-> Str(<<"y">>), title |-> Str(<<"t">>), dateUpdated |-> At(-DAY - 2)]>>],
      [path |-> <<"s", "r", "c", "/", "u", "n", "d", "a", "t", "e", "d", ".", "j", "s", "o", "n">>,
      rel_dir |-> <<>>, parent_dir |-> <<"s", "r", "c">>, cwd |-> <<"s", "r", "c">>,
      load |-> "ok", name |-> <<"u">>,
      paragraphs |-> <<[text |-> Str(<<"x">>), title |-> Str(<<"t">>), dateUpdated |-> BadDate],
                      [text |-> Str(<<"y">>), title |-> Str(<<"t">>), dateUpdated |-> NoDate],
                      [text |-> Str(<<"z">>), title |-> Str(<<"t">>), dateUpdated |-> NullDate]>>]>>

\* The sorted lists of at most n distinct files
RECURSIVE SortedLists(_, _)
SortedLists(from, n) ==
    IF n = 0 \/ from > Len(NotebookFiles) THEN {<<>>}
    ELSE SortedLists(from + 1, n)
         \cup {<<k>> \o l : k \in {from}, l \in SortedLists(from + 1, n - 1)}

WithMode(file, mode) ==
    [path |-> file.path, rel_dir |-> file.rel_dir, parent_dir |-> file.parent_dir,
     cwd |-> file.cwd, load |-> file.load, name |-> file.name,
     paragraphs |-> file.paragraphs, source_dir |-> mode]

\* --directory src: any sorted list; --file: one file
InputLists(mode) ==
    {[i \in 1..Len(l) |-> WithMode(NotebookFiles[l[i]], mode)] :
        l \in {t \in SortedLists(1, MaxFiles) : mode \/ Len(t) = 1}}

\* What the output directory may hold before the run: nothing; the name the
\* coinciding notebooks flatten to, as a file or a directory; that name and
\* all its numbered variants
FlatName(language) == <<"a", "_", "b", "_", "r">> \o FileExtension(language)

Preloads(language) ==
    {EmptyFs,
     DirectoryWith(FlatName(language), "file", FALSE, FALSE, {}, FALSE, 0),
     DirectoryWith(FlatName(language), "dir", TRUE, FALSE, {}, FALSE, 0),
     DirectoryWith(FlatName(language), "file", FALSE, FALSE, 1..MAX_COUNTER, FALSE, 0)}

BtInit ==
    /\ use_source_dir \in BOOLEAN
    /\ input_files \in InputLists(use_source_dir)
    /\ language_arg \in {L_scala, L_python}
    /\ skip_old_days \in {NoDays, Days(0), Days(1)}
    /\ disk \in Preloads(language_arg)
    /\ out_dir_exists \in {TRUE, disk # EmptyFs}
    /\ clock = 0
    /\ idx = 1
    /\ successful_files = <<>>
    /\ failed_files = <<>>
    /\ skipped_files = <<>>
    /\ total_interpreter_stats = <<>>
    /\ outcomes = <<>>
    /\ exit_code = 0
    /\ pc = "run"
    /\ SanIdle
    /\ GpIdle
    /\ RsIdle
    /\ CvIdle
    /\ CpIdle

\* One pass of the loop of process_files
ProcessFile ==
    /\ pc = "run"
    /\ idx <= Len(input_files)
    /\ \E file \in {input_files[idx]} :
       \E r \in {process_single_file(file, language_arg, disk, out_dir_exists,
                                     skip_old_days, clock)} :
           /\ disk' = r.fs
           /\ out_dir_exists' = r.out_dir_exists
           /\ successful_files' =
                 IF r.success THEN Append(successful_files, file.path) ELSE successful_files
           /\ total_interpreter_stats' =
                 IF r.success
                 THEN UpdateCounter(total_interpreter_stats, r.stats, DOMAIN r.stats)
                 ELSE total_interpreter_stats
           /\ skipped_files' =
                 IF ~r.success /\ Contains(r.message, STR_Skipped)
                 THEN Append(skipped_files, file.path) ELSE skipped_files
           /\ failed_files' =
                 IF ~r.success /\ ~Contains(r.message, STR_Skipped)
                 THEN Append(failed_files, <<file.path, r.message>>) ELSE failed_files
           /\ outcomes' =
                 Append(outcomes,
                        [outcome |-> r.outcome, message |-> r.message,
                         output_path |-> r.output_path, at |-> clock,
                         changed |-> r.fs # disk \/ r.out_dir_exists # out_dir_exists])
    /\ idx' = idx + 1
    /\ UNCHANGED <<argVars, clock, exit_code, pc, sanVars, gpVars, rsVars, cvVars, cpVars>>

\* sys.exit(1 if result.failed_files else 0)
Exit ==
    /\ pc = "run"
    /\ idx > Len(input_files)
    /\ exit_code' = IF failed_files # <<>> THEN 1 ELSE 0
    /\ pc' = "exited"
    /\ UNCHANGED <<argVars, runVars, clock, sanVars, gpVars, rsVars, cvVars, cpVars>>

\* A second passes
Tick ==
    /\ pc = "run"
    /\ clock < MaxClock
    /\ clock' = clock + 1
    /\ UNCHANGED <<argVars, runVars, exit_code, pc, sanVars, gpVars, rsVars, cvVars, cpVars>>

Next == ProcessFile \/ Exit \/ Tick

Spec == BtInit /\ [][Next]_vars

Processed == 1..Len(outcomes)

\* C2 as claimed: in one batch run the output paths of the converted files
\* are pairwise distinct, and each converted file's output stays in the
\* output directory as that file's conversion
C2_AsClaimed ==
    /\ \A i \in Processed : \A j \in Processed :
          (i < j /\ outcomes[i].outcome = "Converted" /\ outcomes[j].outcome = "Converted")
             => outcomes[i].output_path # outcomes[j].output_path
    /\ \A i \in Processed :
          outcomes[i].outcome = "Converted"
             => /\ isfile(disk, outcomes[i].output_path)
                /\ disk[outcomes[i].output_path].owner = input_files[i].path

PathsWith(kinds) ==
    LET P(k) == outcomes[k].outcome \in kinds
        ks == SelectSeq([k \in Processed |-> k], P)
    IN  [i \in 1..Len(ks) |-> input_files[ks[i]].path]

\* C3 as claimed: failed_files holds exactly the files whose outcome is
\* Failed, skipped_files exactly those that were skipped as empty or too old,
\* and the exit status is non-zero exactly when some file failed
C3_AsClaimed ==
    /\ [i \in 1..Len(failed_files) |-> failed_files[i][1]] = PathsWith({"Failed"})
    /\ skipped_files = PathsWith({"SkippedEmpty", "SkippedTooOld"})
    /\ pc = "exited" =>
          (exit_code # 0 <=> \E k \in Processed : outcomes[k].outcome = "Failed")

NoTextAtAll(file) ==
    \A i \in 1..Len(file.paragraphs) :
        file.paragraphs[i].text.has # "str" \/ Strip(file.paragraphs[i].text.val) = <<>>

\* C4 as claimed: a loadable notebook in which no paragraph has non-empty
\* trimmed text (none at all, or texts that are missing, empty, blank or
\* null) is skipped as empty whatever the age threshold, and leaves the
\* output directory as it was
C4_AsClaimed ==
    \A k \in Processed :
        (input_files[k].load = "ok" /\ NoTextAtAll(input_files[k]))
           => /\ outcomes[k].outcome = "SkippedEmpty"
              /\ ~outcomes[k].changed

\* C5 as claimed: with --skip_old_days N, a notebook with content whose latest
\* parseable timestamp is one second before now - N days is skipped as too
\* old, one whose latest timestamp is one second after is not, and one with
\* no parseable timestamp is never skipped by age
C5_AsClaimed ==
    \A k \in Processed :
        LET file == input_files[k]
            latest == LatestDate(file.paragraphs)
            cutoff == outcomes[k].at - skip_old_days.days * DAY
        IN  (file.load = "ok" /\ HasContent(file.paragraphs, 1) = "content")
               => /\ (skip_old_days.given /\ latest.has = "time" /\ latest.t = cutoff - 1)
                        => outcomes[k].outcome = "SkippedTooOld"
                  /\ (skip_old_days.given /\ latest.has = "time" /\ latest.t = cutoff + 1)
                        => outcomes[k].outcome # "SkippedTooOld"
                  /\ latest.has # "time" => outcomes[k].outcome # "SkippedTooOld"

-----------------------------------------------------------------------------
(* copy_with_rename (src/copy_dir.py): a source tree copied into a         *)
(* destination tree.  Destination paths are relative to dest_dir; a        *)
(* source file's content is identified by the file's path.                 *)

MaxCopy == 3

\* The src_dir argument
SRC_DIR == <<"s", "r", "c">>

\* The "_file" of f"{filename}_file{ext}"
CP_file == <<"_", "f", "i", "l", "e">>

\* os.path.join
os_join(a, b) == IF a = <<>> THEN b ELSE a \o <<"/">> \o b

\* os.path.basename
basename(p) == SplitOn(p, "/")[Len(SplitOn(p, "/"))]

\* The directories of the source tree, relative to src_dir: one at each of
\* the first two levels and two at the third, so that os.walk's top-down
\* order is the order of the levels
CopyDirs ==
    {<<>>,
     <<"f", "o", "o">>,
     <<"f", "o", "o", "/", "f", "o", "o">>,
     <<"f", "o", "o", "/", "f", "o", "o", "_", "f", "i", "l", "e">>}

Depth(dir) == IF dir = <<>> THEN 0 ELSE Len(SplitOn(dir, "/"))

\* File names: stems that equal a parent directory's name, the names such
\* files are renamed to, and a dangling link, which os.walk lists among the
\* files and shutil.copy2 cannot open
BadName == <<"b", "a", "d", ".", "t", "x", "t">>

CopyNames ==
    {<<"f", "o", "o", ".", "t", "x", "t">>,
     <<"f", "o", "o", "_", "f", "i", "l", "e", ".", "t", "x", "t">>,
     <<"f", "o", "o">>,
     <<"s", "r", "c", ".", "t", "x", "t">>,
     <<"s", "r", "c", "_", "f", "i", "l", "e", ".", "t", "x", "t">>,
     BadName}

SourceFiles ==
    {[dir |-> d, name |-> n, readable |-> n # BadName] : d \in CopyDirs, n \in CopyNames}

\* A directory and what lies above it, below the top
Ancestors(dir) ==
    IF dir = <<>> THEN {}
    ELSE {Join(<<"/">>, SubSeq(SplitOn(dir, "/"), 1, k)) : k \in 1..Len(SplitOn(dir, "/"))}

\* A tree a file system can hold: no file sits where a directory is
IsTree(files) ==
    \A f \in files : \A g \in files : os_join(f.dir, f.name) \notin Ancestors(g.dir)

RECURSIVE SubsetsUpTo(_, _)
SubsetsUpTo(S, n) ==
    IF n = 0 THEN {{}}
    ELSE SubsetsUpTo(S, n - 1)
         \cup {T \cup {x} : T \in SubsetsUpTo(S, n - 1), x \in S}

SourceTrees == {files \in SubsetsUpTo(SourceFiles, MaxCopy) : IsTree(files)}

\* root of os.walk (src_dir itself at the top), and os.path.join(root, file)
walk_root(file) == IF file.dir = <<>> THEN SRC_DIR ELSE os_join(SRC_DIR, file.dir)
src_file(file) == os_join(walk_root(file), file.name)

\* os.path.basename(root)
parent_folder(file) == basename(walk_root(file))

\* os.path.relpath(root, src_dir)
rel_path(file) == IF file.dir = <<>> THEN <<".">> ELSE file.dir

\* Lines 24-29: the destination, below dest_dir
dest_file(file) ==
    IF splitext(file.name)[1] = parent_folder(file)
    THEN normpath(os_join(rel_path(file),
                          splitext(file.name)[1] \o CP_file \o splitext(file.name)[2]))
    ELSE normpath(os_join(rel_path(file), file.name))

\* os.makedirs(target_folder, exist_ok=True) fails where a component of the
\* folder is there and is no directory
makedirs_fails(fs, file) ==
    \E d \in Ancestors(file.dir) : exists(fs, d) /\ ~isdir(fs, d)

makedirs(fs, file) ==
    [q \in DOMAIN fs \cup Ancestors(file.dir) |->
        IF q \in DOMAIN fs THEN fs[q] ELSE Entry("dir")]

\* shutil.copy2(src, dst): into dst when dst is a directory, under the
\* source's own name
copy2_target(fs, file, dst) ==
    IF isdir(fs, dst) THEN os_join(dst, file.name) ELSE dst

copy2_fails(fs, file, dst) ==
    ~file.readable \/ isdir(fs, copy2_target(fs, file, dst))

copy2(fs, file, dst) ==
    [q \in DOMAIN fs \cup {copy2_target(fs, file, dst)} |->
        IF q = copy2_target(fs, file, dst)
        THEN [kind |-> "file", owner |-> src_file(file), content |-> src_file(file)]
        ELSE fs[q]]

\* One pass of the inner loop: what is left in the destination, the log
\* entry, and whether the walk goes on
CopyStep(fs, file, skip_errors) ==
    IF makedirs_fails(fs, file)
    THEN [fs |-> fs, result |-> "makedirs raised", pc |-> "raised"]
    ELSE IF copy2_fails(makedirs(fs, file), file, dest_file(file))
    THEN [fs |-> makedirs(fs, file),
          result |-> IF skip_errors THEN "skipped" ELSE "raised",
          pc |-> IF skip_errors THEN "walk" ELSE "raised"]
    ELSE [fs |-> copy2(makedirs(fs, file), file, dest_file(file)),
          result |-> "copied", pc |-> "walk"]

\* What dest_dir may hold before the run: nothing; a directory where a
\* renamed file is to go; that directory holding a directory in turn
DestWith(dirs) == [q \in dirs |-> Entry("dir")]

CopyPreloads ==
    {EmptyFs,
     DestWith({<<"f", "o", "o">>,
               <<"f", "o", "o", "/", "f", "o", "o", "_", "f", "i", "l", "e", ".", "t", "x", "t">>}),
     DestWith({<<"f", "o", "o">>,
               <<"f", "o", "o", "/", "f", "o", "o", "_", "f", "i", "l", "e", ".", "t", "x", "t">>,
               <<"f", "o", "o", "/", "f", "o", "o", "_", "f", "i", "l", "e", ".", "t", "x", "t",
                 "/", "f", "o", "o", ".", "t", "x", "t">>})}

CpInit ==
    /\ cp_files \in SourceTrees
    /\ cp_skip_errors \in BOOLEAN
    /\ cp_dest \in CopyPreloads
    /\ cp_fresh = (cp_dest = EmptyFs)
    /\ cp_todo = cp_files
    /\ cp_root = <<>>
    /\ cp_log = <<>>
    /\ cp_pc = "walk"
    /\ SanIdle
    /\ GpIdle
    /\ RsIdle
    /\ CvIdle
    /\ BtIdle

\* os.walk is top-down and lists a directory's files in no particular order:
\* the files of the directory being visited go first, then those of a
\* directory of the next level that has any
NextInWalk(file) ==
    \/ file.dir = cp_root
    \/ /\ \A g \in cp_todo : g.dir # cp_root
       /\ \A g \in cp_todo : Depth(file.dir) <= Depth(g.dir)

\* One pass of the inner loop of copy_with_rename
CopyFile ==
    /\ cp_pc = "walk"
    /\ \E file \in cp_todo :
          /\ NextInWalk(file)
          /\ \E r \in {CopyStep(cp_dest, file, cp_skip_errors)} :
                /\ cp_dest' = r.fs
                /\ cp_log' = Append(cp_log, [src |-> src_file(file),
                                             dest_file |-> dest_file(file),
                                             result |-> r.result])
                /\ cp_pc' = r.pc
          /\ cp_todo' = cp_todo \ {file}
          /\ cp_root' = file.dir
    /\ UNCHANGED <<cp_files, cp_skip_errors, cp_fresh, sanVars, gpVars, rsVars, cvVars, btVars>>

\* The walk is over
CopyDone ==
    /\ cp_pc = "walk"
    /\ cp_todo = {}
    /\ cp_pc' = "done"
    /\ UNCHANGED <<cp_files, cp_skip_errors, cp_dest, cp_fresh, cp_todo, cp_root, cp_log,
                   sanVars, gpVars, rsVars, cvVars, btVars>>

CpNext == CopyFile \/ CopyDone

SpecCopy == CpInit /\ [][CpNext]_vars

\* The destination the rule assigns to a source file: its relative
\* directory, and <stem>_file<ext> when the stem is the name of the
\* directory the file is in
ClaimedDest(file) ==
    LET stem == splitext(file.name)[1]
        ext == splitext(file.name)[2]
        parent == IF file.dir = <<>> THEN SRC_DIR ELSE basename(file.dir)
    IN  os_join(file.dir, IF stem = parent THEN stem \o CP_file \o ext ELSE file.name)

\* C11 as claimed: after a run into an empty destination in which every copy
\* succeeded, every source file has its own destination file in the same
\* relative directory, renamed when its stem is its parent directory's name,
\* and distinct source files have distinct destination paths
C11_AsClaimed ==
    (cp_pc = "done" /\ cp_fresh /\ \A i \in 1..Len(cp_log) : cp_log[i].result = "copied")
       => /\ \A f \in cp_files :
                /\ isfile(cp_dest, ClaimedDest(f))
                /\ cp_dest[ClaimedDest(f)].owner = src_file(f)
          /\ \A f \in cp_files : \A g \in cp_files :
                f # g => ClaimedDest(f) # ClaimedDest(g)

=============================================================================
